---------------------------- MODULE Spec2Model ----------------------------
(***************************************************************************)
(* Asynchronous notifications of a Postgres connection                     *)
(* (src/src/notification.rs): the pending queue, the desynchronization     *)
(* flag, the transport, the Notifications facade and its three fallible    *)
(* iterators Iter, BlockingIter and TimeoutIter.                           *)
(***************************************************************************)
EXTENDS Integers, Sequences, FiniteSets, TLC

\* Number of transport events (messages, failures) the server side produces.
MaxArrivals == 2
\* Largest Duration (in clock ticks) handed to timeout_iter.
MaxTimeout == 1

-----------------------------------------------------------------------------
(* Values *)

\* Option<T>
None == <<>>
Some(x) == <<x>>

\* Result<T, E>
Ok(v) == [tag |-> "Ok", val |-> v]
Err(e) == [tag |-> "Err", err |-> e]

\* unreachable!(): the pull panics and returns nothing.
Unreachable == [tag |-> "panic"]

\* struct Notification { process_id, channel, payload }
Notification(process_id, channel, payload) ==
    [process_id |-> process_id, channel |-> channel, payload |-> payload]

\* The notification records the server raises in this model.
Records == { Notification(42, "ch1", "hello"), Notification(7, "x", "") }

\* Backend::NotificationResponse { process_id, channel, payload }
NotificationResponse(process_id, channel, payload) ==
    [type |-> "NotificationResponse", process_id |-> process_id,
     channel |-> channel, payload |-> payload]

\* A backend message the connection files away itself (notice, parameter status).
NoticeResponse == [type |-> "NoticeResponse"]

\* A backend message of a kind that belongs to a query's response.
ReadyForQuery == [type |-> "ReadyForQuery"]

\* A transport failure at this position of the byte stream.
IoFailure == [type |-> "io_failure"]

\* Everything the transport can present to a read.
Wire ==
    { NotificationResponse(n.process_id, n.channel, n.payload) : n \in Records }
        \cup { NoticeResponse, ReadyForQuery, IoFailure }

\* Error::Io(e)
ErrorIo(e) == [kind |-> "Io", cause |-> e]

\* desynchronized(): the io error every operation on a desynchronized connection gets.
desynchronized == "connection desynchronized"

\* The iterators the facade constructs: a reference to the connection, and
\* for TimeoutIter the duration.
Iter == [variant |-> "Iter"]
BlockingIter == [variant |-> "BlockingIter"]
TimeoutIter(timeout) == [variant |-> "TimeoutIter", timeout |-> timeout]

\* The durations timeout_iter is called with: none at all, and the largest.
Durations == {0, MaxTimeout}

-----------------------------------------------------------------------------
VARIABLES
    notifications,  \* conn.notifications: the pending queue (VecDeque<Notification>)
    desync,         \* the connection's desynchronization flag
    stream,         \* transport events received from the server and not yet read
    arrivals,       \* how many transport events the server side has produced
    borrowed,       \* the RefCell around the connection state is mutably borrowed
    iters,          \* the iterators constructed so far
    pc,             \* the calling thread: "idle", "reading" (inside a blocking read), "panicked"
    cur,            \* the pull that is inside its read: None or Some([it, pre, remaining])
    result,         \* what the call that has just returned gave back: None or Some(record)
    appended,       \* history: records appended to the pending queue, in order
    delivered,      \* history: records pulls took from the pending queue and returned, in order
    emptied         \* history: some pull has returned Ok(None)

vars == << notifications, desync, stream, arrivals, borrowed, iters, pc, cur,
           result, appended, delivered, emptied >>

-----------------------------------------------------------------------------
(* The connection collaborator: its reads of the transport *)

\* conn.is_desynchronized()
is_desynchronized(flag) == flag

\* The messages the connection consumes itself before it hands one back:
\* the stream without its leading notices.
RECURSIVE skip(_)
skip(s) ==
    IF s # <<>> /\ Head(s) = NoticeResponse THEN skip(Tail(s)) ELSE s

\* A blocking read has something to hand back.
Ready(s) == skip(s) # <<>>

\* conn.read_message_with_notification_nonblocking():
\* Ok(Some(message)), Ok(None) when the transport has nothing, or Err(io error).
read_message_with_notification_nonblocking(s) ==
    LET d == skip(s) IN
    IF d = <<>> THEN [ret |-> Ok(None), stream |-> d]
    ELSE IF Head(d) = IoFailure THEN [ret |-> Err("io"), stream |-> Tail(d)]
    ELSE [ret |-> Ok(Some(Head(d))), stream |-> Tail(d)]

\* conn.read_message_with_notification(): Ok(message) or Err(io error);
\* it returns only once Ready(s).
read_message_with_notification(s) ==
    LET d == skip(s) IN
    IF Head(d) = IoFailure THEN [ret |-> Err("io"), stream |-> Tail(d)]
    ELSE [ret |-> Ok(Head(d)), stream |-> Tail(d)]

\* conn.read_message_with_notification_timeout(timeout), at the moment it
\* returns: a message or a failure as soon as there is one, Ok(None) when the
\* duration has run out (remaining = 0) with nothing to hand back.
read_message_with_notification_timeout(s, remaining) ==
    LET d == skip(s) IN
    IF d = <<>> THEN [ret |-> Ok(None), stream |-> d]
    ELSE IF Head(d) = IoFailure THEN [ret |-> Err("io"), stream |-> Tail(d)]
    ELSE [ret |-> Ok(Some(Head(d))), stream |-> Tail(d)]

\* An ordinary query's reads: every notification met on the way is pushed
\* onto the pending queue, other messages go to the query, a transport
\* failure ends the reads.
RECURSIVE read_message(_, _)
read_message(s, q) ==
    IF s = <<>> THEN [stream |-> s, notifications |-> q, failed |-> FALSE]
    ELSE IF Head(s) = IoFailure
        THEN [stream |-> Tail(s), notifications |-> q, failed |-> TRUE]
    ELSE IF Head(s).type = "NotificationResponse"
        THEN read_message(Tail(s),
                 Append(q, Notification(Head(s).process_id, Head(s).channel,
                                        Head(s).payload)))
    ELSE read_message(Tail(s), q)

-----------------------------------------------------------------------------
(* notification.rs: the pulls *)

\* Mutant: the newest record is taken (pop_back for pop_front).
pop_front_takes_back(q) ==
    IF q = <<>> THEN [val |-> None, rest |-> q]
    ELSE [val |-> Some(q[Len(q)]), rest |-> SubSeq(q, 1, Len(q) - 1)]

\* Mutant: the front record is returned and left in the queue (front for pop_front).
pop_front_keeps(q) ==
    IF q = <<>> THEN [val |-> None, rest |-> q]
    ELSE [val |-> Some(Head(q)), rest |-> q]

\* Mutant: the queue is never consulted.
pop_front_never(q) == [val |-> None, rest |-> q]

\* conn.notifications.pop_front()
pop_front(q) ==
    IF q = <<>> THEN [val |-> None, rest |-> q]
    ELSE [val |-> Some(Head(q)), rest |-> Tail(q)]

\* Mutant: "nothing available" is reported as an error.
Iter_match_none_is_error(r) ==
    IF r.tag = "Ok" /\ r.val # None /\ r.val[1].type = "NotificationResponse"
        THEN Ok(Some(Notification(r.val[1].process_id, r.val[1].channel,
                                  r.val[1].payload)))
    ELSE IF r.tag = "Ok" /\ r.val = None THEN Err(ErrorIo("would block"))
    ELSE IF r.tag = "Err" THEN Err(ErrorIo(r.err))
    ELSE Unreachable

\* The match of Iter::next on the value the non-blocking read returned.
Iter_match(r) ==
    IF r.tag = "Ok" /\ r.val # None /\ r.val[1].type = "NotificationResponse"
        THEN Ok(Some(Notification(r.val[1].process_id, r.val[1].channel,
                                  r.val[1].payload)))
    ELSE IF r.tag = "Ok" /\ r.val = None THEN Ok(None)
    ELSE IF r.tag = "Err" THEN Err(ErrorIo(r.err))
    ELSE Unreachable

\* Mutant: a message of another kind is ignored (_ => Ok(None)).
BlockingIter_match_ignores(r) ==
    IF r.tag = "Ok" /\ r.val.type = "NotificationResponse"
        THEN Ok(Some(Notification(r.val.process_id, r.val.channel,
                                  r.val.payload)))
    ELSE IF r.tag = "Err" THEN Err(ErrorIo(r.err))
    ELSE Ok(None)

\* The match of BlockingIter::next on the value the blocking read returned.
BlockingIter_match(r) ==
    IF r.tag = "Ok" /\ r.val.type = "NotificationResponse"
        THEN Ok(Some(Notification(r.val.process_id, r.val.channel,
                                  r.val.payload)))
    ELSE IF r.tag = "Err" THEN Err(ErrorIo(r.err))
    ELSE Unreachable

\* Mutant: a failed read is swallowed and reported as "nothing yet".
TimeoutIter_match_swallows(r) ==
    IF r.tag = "Ok" /\ r.val # None /\ r.val[1].type = "NotificationResponse"
        THEN Ok(Some(Notification(r.val[1].process_id, r.val[1].channel,
                                  r.val[1].payload)))
    ELSE IF r.tag = "Ok" /\ r.val = None THEN Ok(None)
    ELSE IF r.tag = "Err" THEN Ok(None)
    ELSE Unreachable

\* The match of TimeoutIter::next on the value the bounded read returned.
TimeoutIter_match(r) ==
    IF r.tag = "Ok" /\ r.val # None /\ r.val[1].type = "NotificationResponse"
        THEN Ok(Some(Notification(r.val[1].process_id, r.val[1].channel,
                                  r.val[1].payload)))
    ELSE IF r.tag = "Ok" /\ r.val = None THEN Ok(None)
    ELSE IF r.tag = "Err" THEN Err(ErrorIo(r.err))
    ELSE Unreachable

\* What the connection does to its flag when a read of the transport has
\* returned ret: a failure may leave the stream in an inconsistent position,
\* and then the connection latches the flag.
flag_after(ret, flag) == IF ret.tag = "Err" THEN {flag, TRUE} ELSE {flag}

\* The connection state a pull found when it started.
Pre == [notifications |-> notifications, desync |-> desync, stream |-> stream]

\* Mutant: the RefMut guard outlives the pull.
Return_keeps_borrow(it, ret, reads, pre) ==
    /\ result' = Some([op |-> "next", it |-> it, ret |-> ret, reads |-> reads,
                       pre |-> pre])
    /\ delivered' = IF ret.tag = "Ok" /\ ret.val # None /\ reads = <<>>
                    THEN Append(delivered, ret.val[1])
                    ELSE delivered
    /\ emptied' = (emptied \/ ret = Ok(None))
    /\ pc' = IF ret = Unreachable THEN "panicked" ELSE "idle"
    /\ borrowed' = borrowed
    /\ cur' = None

\* A pull of iterator it ends: with ret (a Result, or Unreachable when it
\* panics), after the read strategy returned the values of reads, having
\* started in connection state pre.  The RefMut guard is dropped.
Return(it, ret, reads, pre) ==
    /\ result' = Some([op |-> "next", it |-> it, ret |-> ret, reads |-> reads,
                       pre |-> pre])
    /\ delivered' = IF ret.tag = "Ok" /\ ret.val # None /\ reads = <<>>
                    THEN Append(delivered, ret.val[1])
                    ELSE delivered
    /\ emptied' = (emptied \/ ret = Ok(None))
    /\ pc' = IF ret = Unreachable THEN "panicked" ELSE "idle"
    /\ borrowed' = FALSE
    /\ cur' = None

\* Mutant: the flag is not checked before the read.
Iter_next_no_flag_check(it) ==
    /\ pc = "idle" /\ ~borrowed
    /\ it \in iters /\ it.variant = "Iter"
    /\ LET front == pop_front(notifications) IN
       /\ notifications' = front.rest
       /\ IF front.val # None THEN
              /\ Return(it, Ok(front.val), <<>>, Pre)
              /\ UNCHANGED << desync, stream >>
          ELSE
              LET r == read_message_with_notification_nonblocking(stream) IN
              /\ stream' = r.stream
              /\ desync' \in flag_after(r.ret, desync)
              /\ Return(it, Iter_match(r.ret), << r.ret >>, Pre)
    /\ UNCHANGED << arrivals, iters, appended >>

\* Mutant: once a pull has returned empty the iterator is exhausted.
Iter_next_fused(it) ==
    /\ pc = "idle" /\ ~borrowed
    /\ it \in iters /\ it.variant = "Iter"
    /\ IF emptied THEN
           /\ Return(it, Ok(None), <<>>, Pre)
           /\ UNCHANGED << notifications, desync, stream >>
       ELSE
           LET front == pop_front(notifications) IN
           /\ notifications' = front.rest
           /\ IF front.val # None THEN
                  /\ Return(it, Ok(front.val), <<>>, Pre)
                  /\ UNCHANGED << desync, stream >>
              ELSE IF is_desynchronized(desync) THEN
                  /\ Return(it, Err(ErrorIo(desynchronized)), <<>>, Pre)
                  /\ UNCHANGED << desync, stream >>
              ELSE
                  LET r == read_message_with_notification_nonblocking(stream) IN
                  /\ stream' = r.stream
                  /\ desync' \in flag_after(r.ret, desync)
                  /\ Return(it, Iter_match(r.ret), << r.ret >>, Pre)
    /\ UNCHANGED << arrivals, iters, appended >>

\* Mutant: the flag is cleared once its error has been reported.
Iter_next_clears_flag(it) ==
    /\ pc = "idle" /\ ~borrowed
    /\ it \in iters /\ it.variant = "Iter"
    /\ LET front == pop_front(notifications) IN
       /\ notifications' = front.rest
       /\ IF front.val # None THEN
              /\ Return(it, Ok(front.val), <<>>, Pre)
              /\ UNCHANGED << desync, stream >>
          ELSE IF is_desynchronized(desync) THEN
              /\ Return(it, Err(ErrorIo(desynchronized)), <<>>, Pre)
              /\ desync' = FALSE
              /\ UNCHANGED stream
          ELSE
              LET r == read_message_with_notification_nonblocking(stream) IN
              /\ stream' = r.stream
              /\ desync' \in flag_after(r.ret, desync)
              /\ Return(it, Iter_match(r.ret), << r.ret >>, Pre)
    /\ UNCHANGED << arrivals, iters, appended >>

\* Iter::next
Iter_next(it) ==
    /\ pc = "idle" /\ ~borrowed
    /\ it \in iters /\ it.variant = "Iter"
    /\ LET front == pop_front(notifications) IN
       /\ notifications' = front.rest
       /\ IF front.val # None THEN
              /\ Return(it, Ok(front.val), <<>>, Pre)
              /\ UNCHANGED << desync, stream >>
          ELSE IF is_desynchronized(desync) THEN
              /\ Return(it, Err(ErrorIo(desynchronized)), <<>>, Pre)
              /\ UNCHANGED << desync, stream >>
          ELSE
              LET r == read_message_with_notification_nonblocking(stream) IN
              /\ stream' = r.stream
              /\ desync' \in flag_after(r.ret, desync)
              /\ Return(it, Iter_match(r.ret), << r.ret >>, Pre)
    /\ UNCHANGED << arrivals, iters, appended >>

\* Mutant: the flag is checked before the queue.
BlockingIter_next_flag_first(it) ==
    /\ pc = "idle" /\ ~borrowed
    /\ it \in iters /\ it.variant = "BlockingIter"
    /\ IF is_desynchronized(desync) THEN
           /\ Return(it, Err(ErrorIo(desynchronized)), <<>>, Pre)
           /\ UNCHANGED notifications
       ELSE
           LET front == pop_front(notifications) IN
           /\ notifications' = front.rest
           /\ IF front.val # None THEN
                  Return(it, Ok(front.val), <<>>, Pre)
              ELSE
                  /\ pc' = "reading"
                  /\ borrowed' = TRUE
                  /\ cur' = Some([it |-> it, pre |-> Pre, remaining |-> 0])
                  /\ result' = None
                  /\ UNCHANGED << delivered, emptied >>
    /\ UNCHANGED << desync, stream, arrivals, iters, appended >>

\* BlockingIter::next, up to its call of the blocking read.
BlockingIter_next(it) ==
    /\ pc = "idle" /\ ~borrowed
    /\ it \in iters /\ it.variant = "BlockingIter"
    /\ LET front == pop_front(notifications) IN
       /\ notifications' = front.rest
       /\ IF front.val # None THEN
              Return(it, Ok(front.val), <<>>, Pre)
          ELSE IF is_desynchronized(desync) THEN
              Return(it, Err(ErrorIo(desynchronized)), <<>>, Pre)
          ELSE
              /\ pc' = "reading"
              /\ borrowed' = TRUE
              /\ cur' = Some([it |-> it, pre |-> Pre, remaining |-> 0])
              /\ result' = None
              /\ UNCHANGED << delivered, emptied >>
    /\ UNCHANGED << desync, stream, arrivals, iters, appended >>

\* Mutant: the non-blocking read is called, and Ok(None) handed on.
BlockingIter_read_nowait ==
    /\ pc = "reading" /\ cur[1].it.variant = "BlockingIter"
    /\ LET r == read_message_with_notification_nonblocking(stream) IN
       /\ stream' = r.stream
       /\ desync' \in flag_after(r.ret, desync)
       /\ Return(cur[1].it, Iter_match(r.ret), << r.ret >>, cur[1].pre)
    /\ UNCHANGED << notifications, arrivals, iters, appended >>

\* BlockingIter::next, from the return of the blocking read: the read
\* returns once the transport has a message or has failed.
BlockingIter_read ==
    /\ pc = "reading" /\ cur[1].it.variant = "BlockingIter"
    /\ Ready(stream)
    /\ LET r == read_message_with_notification(stream) IN
       /\ stream' = r.stream
       /\ desync' \in flag_after(r.ret, desync)
       /\ Return(cur[1].it, BlockingIter_match(r.ret), << r.ret >>, cur[1].pre)
    /\ UNCHANGED << notifications, arrivals, iters, appended >>

\* Mutant: the flag is checked before the queue.
TimeoutIter_next_flag_first(it) ==
    /\ pc = "idle" /\ ~borrowed
    /\ it \in iters /\ it.variant = "TimeoutIter"
    /\ IF is_desynchronized(desync) THEN
           /\ Return(it, Err(ErrorIo(desynchronized)), <<>>, Pre)
           /\ UNCHANGED notifications
       ELSE
           LET front == pop_front(notifications) IN
           /\ notifications' = front.rest
           /\ IF front.val # None THEN
                  Return(it, Ok(front.val), <<>>, Pre)
              ELSE
                  /\ pc' = "reading"
                  /\ borrowed' = TRUE
                  /\ cur' = Some([it |-> it, pre |-> Pre, remaining |-> it.timeout])
                  /\ result' = None
                  /\ UNCHANGED << delivered, emptied >>
    /\ UNCHANGED << desync, stream, arrivals, iters, appended >>

\* Mutant: the flag is not checked before the bounded read.
TimeoutIter_next_no_flag_check(it) ==
    /\ pc = "idle" /\ ~borrowed
    /\ it \in iters /\ it.variant = "TimeoutIter"
    /\ LET front == pop_front(notifications) IN
       /\ notifications' = front.rest
       /\ IF front.val # None THEN
              Return(it, Ok(front.val), <<>>, Pre)
          ELSE
              /\ pc' = "reading"
              /\ borrowed' = TRUE
              /\ cur' = Some([it |-> it, pre |-> Pre, remaining |-> it.timeout])
              /\ result' = None
              /\ UNCHANGED << delivered, emptied >>
    /\ UNCHANGED << desync, stream, arrivals, iters, appended >>

\* Mutant: the iterator keeps one deadline: once a pull has come back empty
\* the window is used up, and later pulls read with none left.
TimeoutIter_next_one_deadline(it) ==
    /\ pc = "idle" /\ ~borrowed
    /\ it \in iters /\ it.variant = "TimeoutIter"
    /\ LET front == pop_front(notifications) IN
       /\ notifications' = front.rest
       /\ IF front.val # None THEN
              Return(it, Ok(front.val), <<>>, Pre)
          ELSE IF is_desynchronized(desync) THEN
              Return(it, Err(ErrorIo(desynchronized)), <<>>, Pre)
          ELSE
              /\ pc' = "reading"
              /\ borrowed' = TRUE
              /\ cur' = Some([it |-> it, pre |-> Pre,
                              remaining |-> IF emptied THEN 0 ELSE it.timeout])
              /\ result' = None
              /\ UNCHANGED << delivered, emptied >>
    /\ UNCHANGED << desync, stream, arrivals, iters, appended >>

\* TimeoutIter::next, up to its call of the bounded read with self.timeout.
TimeoutIter_next(it) ==
    /\ pc = "idle" /\ ~borrowed
    /\ it \in iters /\ it.variant = "TimeoutIter"
    /\ LET front == pop_front(notifications) IN
       /\ notifications' = front.rest
       /\ IF front.val # None THEN
              Return(it, Ok(front.val), <<>>, Pre)
          ELSE IF is_desynchronized(desync) THEN
              Return(it, Err(ErrorIo(desynchronized)), <<>>, Pre)
          ELSE
              /\ pc' = "reading"
              /\ borrowed' = TRUE
              /\ cur' = Some([it |-> it, pre |-> Pre, remaining |-> it.timeout])
              /\ result' = None
              /\ UNCHANGED << delivered, emptied >>
    /\ UNCHANGED << desync, stream, arrivals, iters, appended >>

\* Mutant: the blocking read is called in place of the bounded one.
TimeoutIter_read_blocks ==
    /\ pc = "reading" /\ cur[1].it.variant = "TimeoutIter"
    /\ Ready(stream)
    /\ LET r == read_message_with_notification(stream) IN
       /\ stream' = r.stream
       /\ desync' \in flag_after(r.ret, desync)
       /\ Return(cur[1].it, BlockingIter_match(r.ret), << r.ret >>, cur[1].pre)
    /\ UNCHANGED << notifications, arrivals, iters, appended >>

\* TimeoutIter::next, from the return of the bounded read: the read returns
\* once the transport has a message or has failed, or the duration has run out.
TimeoutIter_read ==
    /\ pc = "reading" /\ cur[1].it.variant = "TimeoutIter"
    /\ Ready(stream) \/ cur[1].remaining = 0
    /\ LET r == read_message_with_notification_timeout(stream, cur[1].remaining) IN
       /\ stream' = r.stream
       /\ desync' \in flag_after(r.ret, desync)
       /\ Return(cur[1].it, TimeoutIter_match(r.ret), << r.ret >>, cur[1].pre)
    /\ UNCHANGED << notifications, arrivals, iters, appended >>

\* Time passes while a bounded read waits with nothing to hand back.
Tick ==
    /\ pc = "reading" /\ cur[1].it.variant = "TimeoutIter"
    /\ ~Ready(stream) /\ cur[1].remaining > 0
    /\ cur' = Some([cur[1] EXCEPT !.remaining = @ - 1])
    /\ UNCHANGED << notifications, desync, stream, arrivals, borrowed, iters,
                    pc, result, appended, delivered, emptied >>

-----------------------------------------------------------------------------
(* notification.rs: the facade and the size estimates *)

\* Notifications::len
len(q) == Len(q)

\* Mutant: the comparison is inverted.
is_empty_inverted(q) == len(q) # 0

\* Notifications::is_empty
is_empty(q) == len(q) = 0

\* Mutant: the queue depth is given as an exact upper bound too.
Iter_size_hint_exact(q) == << Len(q), Some(Len(q)) >>

\* Iter::size_hint
Iter_size_hint(q) == << Len(q), None >>

\* BlockingIter has no size_hint of its own: it has the FallibleIterator
\* trait's provided one.
BlockingIter_size_hint(q) == << 0, None >>

\* TimeoutIter::size_hint
TimeoutIter_size_hint(q) == << Len(q), None >>

\* A call that reads the connection state and changes nothing returns: r
\* records the call and its value.
Observe(r) ==
    /\ result' = Some(r)
    /\ UNCHANGED << notifications, desync, stream, arrivals, borrowed, iters,
                    pc, cur, appended, delivered, emptied >>

\* notifications.len()
Notifications_len ==
    /\ pc = "idle" /\ ~borrowed
    /\ Observe([op |-> "len", count |-> len(notifications)])

\* notifications.is_empty()
Notifications_is_empty ==
    /\ pc = "idle" /\ ~borrowed
    /\ Observe([op |-> "is_empty", empty |-> is_empty(notifications)])

\* it.size_hint()
size_hint(it) ==
    /\ pc = "idle" /\ ~borrowed
    /\ it \in iters
    /\ Observe([op |-> "size_hint", it |-> it,
                 hint |-> CASE it.variant = "Iter" ->
                                   Iter_size_hint(notifications)
                            [] it.variant = "BlockingIter" ->
                                   BlockingIter_size_hint(notifications)
                            [] it.variant = "TimeoutIter" ->
                                   TimeoutIter_size_hint(notifications)])

\* A constructor hands out iterator it.
Construct(it) ==
    /\ pc = "idle"
    /\ iters' = iters \cup {it}
    /\ result' = None
    /\ UNCHANGED << notifications, desync, stream, arrivals, borrowed, pc, cur,
                    appended, delivered, emptied >>

\* Notifications::iter
iter == Construct(Iter)

\* Notifications::blocking_iter
blocking_iter == Construct(BlockingIter)

\* Notifications::timeout_iter
timeout_iter(timeout) == Construct(TimeoutIter(timeout))

-----------------------------------------------------------------------------
(* The environment: the server and the connection's other users *)

\* The server sends a message, or the transport fails.
Arrive(m) ==
    /\ arrivals < MaxArrivals
    /\ arrivals' = arrivals + 1
    /\ stream' = Append(stream, m)
    /\ result' = None
    /\ UNCHANGED << notifications, desync, borrowed, iters, pc, cur, appended,
                    delivered, emptied >>

\* An ordinary query runs on the connection: it holds the connection state
\* for its reads and queues the notifications it meets.
Query ==
    /\ pc = "idle" /\ ~borrowed
    /\ ~is_desynchronized(desync)
    /\ stream # <<>>
    /\ LET r == read_message(stream, notifications) IN
       /\ stream' = r.stream
       /\ notifications' = r.notifications
       /\ appended' = appended \o SubSeq(r.notifications, Len(notifications) + 1,
                                         Len(r.notifications))
       /\ desync' \in (IF r.failed THEN {desync, TRUE} ELSE {desync})
    /\ result' = None
    /\ UNCHANGED << arrivals, borrowed, iters, pc, cur, delivered, emptied >>

-----------------------------------------------------------------------------
Init ==
    /\ notifications = <<>>
    /\ desync = FALSE
    /\ stream = <<>>
    /\ arrivals = 0
    /\ borrowed = FALSE
    /\ iters = {}
    /\ pc = "idle"
    /\ cur = None
    /\ result = None
    /\ appended = <<>>
    /\ delivered = <<>>
    /\ emptied = FALSE

Next ==
    \/ iter
    \/ blocking_iter
    \/ \E timeout \in Durations : timeout_iter(timeout)
    \/ Notifications_len
    \/ Notifications_is_empty
    \/ \E it \in iters : size_hint(it)
    \/ \E it \in iters : Iter_next(it)
    \/ \E it \in iters : BlockingIter_next(it)
    \/ BlockingIter_read
    \/ \E it \in iters : TimeoutIter_next(it)
    \/ TimeoutIter_read
    \/ Tick
    \/ \E m \in Wire : Arrive(m)
    \/ Query

Spec == Init /\ [][Next]_vars

\* Some pull starts.
Pull ==
    \E it \in iters : Iter_next(it) \/ BlockingIter_next(it) \/ TimeoutIter_next(it)

\* The application keeps pulling: it obtains an iterator, and while a pull
\* can be performed one eventually is.
LiveSpec ==
    /\ Spec
    /\ WF_vars(iter \/ blocking_iter \/ \E timeout \in Durations : timeout_iter(timeout))
    /\ WF_vars(Pull)

\* A call in progress proceeds: a read returns once it can, and time passes
\* while a bounded read waits.
TermSpec ==
    /\ Spec
    /\ WF_vars(BlockingIter_read)
    /\ WF_vars(TimeoutIter_read)
    /\ WF_vars(Tick)

-----------------------------------------------------------------------------
(* Properties *)

\* The step just taken was the return (or the panic) of a pull.
PullReturned == result # None /\ result[1].op = "next"

\* The pull that has just returned took its record from the pending queue.
FromQueue ==
    /\ PullReturned
    /\ result[1].reads = <<>>
    /\ result[1].ret.tag = "Ok"

\* s is a prefix of t.
IsPrefix(s, t) == Len(s) <= Len(t) /\ SubSeq(t, 1, Len(s)) = s

\* C1 (FIFO delivery): whatever the interleaving of appends and of pulls by
\* Iter, BlockingIter and TimeoutIter, the records the pulls have returned
\* from the pending queue, in the order the pulls completed, are the records
\* appended to the queue in the order they were appended: the returned
\* sequence is always a prefix of the appended one.
C1_FifoDelivery == IsPrefix(delivered, appended)

\* Two different records were queued and pulled, the second by a BlockingIter.
C1_Witness ==
    /\ Len(delivered) >= 2
    /\ delivered[1] # delivered[2]
    /\ FromQueue
    /\ result[1].it.variant = "BlockingIter"

\* C2 (exactly-once removal): a pull that returns a record from the queue
\* returns its front record and removes exactly that one record; a pull that
\* returns empty or an error (or a record it read itself) removes nothing;
\* and every appended record is either still queued or was returned by one
\* pull, never both and never twice.
C2_ExactlyOnceRemoval ==
    /\ appended = delivered \o notifications
    /\ PullReturned =>
         IF FromQueue
         THEN /\ result[1].pre.notifications # <<>>
              /\ result[1].ret = Ok(Some(Head(result[1].pre.notifications)))
              /\ notifications = Tail(result[1].pre.notifications)
              /\ Len(notifications) = Len(result[1].pre.notifications) - 1
         ELSE notifications = result[1].pre.notifications

\* A TimeoutIter pull has taken the front of a queue of two records.
C2_Witness ==
    /\ FromQueue
    /\ result[1].it.variant = "TimeoutIter"
    /\ Len(result[1].pre.notifications) = 2
    /\ Len(notifications) = 1


\* C3 (no loss): provided pulls keep being performed, every record appended
\* to the pending queue is eventually returned by a pull, whichever iterator
\* variant performs it: at every moment each appended record is either still
\* queued or has been returned once (none dropped, none duplicated), and
\* again and again the pulls have returned, in order, every record appended
\* so far.
C3_NoLoss ==
    /\ [](Len(delivered) + Len(notifications) = Len(appended))
    /\ []<>(delivered = appended)

\* Every record the server sent was queued by a query and then pulled.
C3_Witness ==
    /\ Len(appended) = MaxArrivals
    /\ delivered = appended
    /\ FromQueue

\* The desynchronization error a pull fails with.
DesyncError == Err(ErrorIo(desynchronized))

\* C4 (queue-then-flag ordering): a pull of any variant that starts with the
\* flag set and records queued still returns the front record; the
\* desynchronization error is returned by exactly the pulls that start with
\* the flag set and the queue empty.
C4_QueueThenFlag ==
    PullReturned =>
      /\ (result[1].pre.desync /\ result[1].pre.notifications # <<>>) =>
            result[1].ret = Ok(Some(Head(result[1].pre.notifications)))
      /\ (result[1].ret = DesyncError) <=>
            (result[1].pre.desync /\ result[1].pre.notifications = <<>>)

\* The flag was set while a record was queued, and a BlockingIter pull has
\* returned that record.
C4_Witness ==
    /\ FromQueue
    /\ result[1].pre.desync
    /\ result[1].it.variant = "BlockingIter"

\* C5 as stated (desync latch): once the flag is set every pull fails with
\* the desynchronization error, even when records are queued.
C5_EveryPullFailsOnceSet ==
    (PullReturned /\ result[1].pre.desync) => result[1].ret = DesyncError

\* C5 amended: once the flag is set it stays set, no pull of any iterator,
\* existing or new, reads the transport, and every pull that finds the
\* pending queue empty fails with the desynchronization error (a pull that
\* finds a record queued returns it instead).
C5_DesyncLatch ==
    (PullReturned /\ result[1].pre.desync) =>
      /\ desync
      /\ result[1].reads = <<>>
      /\ result[1].pre.notifications = <<>> => result[1].ret = DesyncError
      /\ result[1].ret.tag = "Err" => result[1].ret = DesyncError

\* After the queued record was pulled, an Iter pull on the desynchronized
\* connection has failed.
C5_Witness ==
    /\ PullReturned
    /\ result[1].pre.desync
    /\ result[1].ret = DesyncError
    /\ result[1].it.variant = "Iter"
    /\ Len(delivered) >= 1

\* C6 (BlockingIter never returns empty): a BlockingIter pull that returns,
\* returns a record or an error, never Ok(None); started on an empty queue
\* with the flag clear it performs the blocking read, and while the transport
\* has neither a message nor a failure the pull cannot return.
C6_BlockingNeverEmpty ==
    /\ (PullReturned /\ result[1].it.variant = "BlockingIter") =>
         /\ result[1].ret # Ok(None)
         /\ (result[1].pre.notifications = <<>> /\ ~result[1].pre.desync) =>
                Len(result[1].reads) = 1
    /\ (pc = "reading" /\ cur[1].it.variant = "BlockingIter" /\ ~Ready(stream)) =>
         ~ENABLED BlockingIter_read

\* A BlockingIter pull on an empty queue has returned the record it read.
C6_Witness ==
    /\ PullReturned
    /\ result[1].it.variant = "BlockingIter"
    /\ result[1].pre.notifications = <<>>
    /\ result[1].reads # <<>>
    /\ result[1].ret.tag = "Ok"

\* The read a pull performed handed back a notification message.
ReadNotification ==
    /\ Len(result[1].reads) = 1
    /\ result[1].reads[1].tag = "Ok"
    /\ result[1].reads[1].val # None
    /\ result[1].reads[1].val[1].type = "NotificationResponse"

\* C7 (resumability): after some pull has returned empty, a pull on an Iter
\* or a TimeoutIter that finds a record queued returns it, and one that finds
\* the queue empty and the flag clear reads the transport and returns the
\* notification that has become readable.
C7_Resumable ==
    (PullReturned /\ emptied /\ result[1].it.variant \in {"Iter", "TimeoutIter"}) =>
      /\ result[1].pre.notifications # <<>> =>
            result[1].ret = Ok(Some(Head(result[1].pre.notifications)))
      /\ (result[1].pre.notifications = <<>> /\ ~result[1].pre.desync) =>
            /\ Len(result[1].reads) = 1
            /\ ReadNotification =>
                 result[1].ret =
                     Ok(Some(Notification(result[1].reads[1].val[1].process_id,
                                          result[1].reads[1].val[1].channel,
                                          result[1].reads[1].val[1].payload)))

\* After an empty pull, an Iter pull has returned a notification it read.
C7_Witness ==
    /\ PullReturned
    /\ emptied
    /\ result[1].it.variant = "Iter"
    /\ ReadNotification
    /\ result[1].ret.tag = "Ok"

\* C8 ("nothing available" is no error): when the read of an Iter or a
\* TimeoutIter pull reports no message, the pull returns Ok(None) and leaves
\* the queue and the flag as it found them (empty and clear).
C8_NothingIsNotAnError ==
    (/\ PullReturned
     /\ result[1].it.variant \in {"Iter", "TimeoutIter"}
     /\ result[1].reads = << Ok(None) >>) =>
      /\ result[1].ret = Ok(None)
      /\ notifications = result[1].pre.notifications
      /\ notifications = <<>>
      /\ desync = result[1].pre.desync
      /\ ~desync

\* A TimeoutIter pull with a positive duration has timed out.
C8_Witness ==
    /\ PullReturned
    /\ result[1].it = TimeoutIter(MaxTimeout)
    /\ result[1].reads = << Ok(None) >>
    /\ result[1].ret = Ok(None)

\* C9 as stated (size estimate): every iterator's estimate is (queue depth,
\* unknown upper bound).
C9_EverySizeHintIsDepth ==
    (result # None /\ result[1].op = "size_hint") =>
        result[1].hint = << Len(notifications), None >>

\* C9 amended: the estimate of an Iter and of a TimeoutIter is (queue depth,
\* unknown upper bound); a BlockingIter defines no estimate of its own and
\* gives the iterator trait's (0, unknown upper bound), whatever the depth.
C9_SizeHint ==
    (result # None /\ result[1].op = "size_hint") =>
      /\ result[1].it.variant \in {"Iter", "TimeoutIter"} =>
            result[1].hint = << Len(notifications), None >>
      /\ result[1].it.variant = "BlockingIter" => result[1].hint = << 0, None >>

\* An Iter was asked for its estimate with two records queued.
C9_Witness ==
    /\ result # None
    /\ result[1].op = "size_hint"
    /\ result[1].it.variant = "Iter"
    /\ Len(notifications) = 2

\* C10 (I/O failures surface, no retry): a pull calls its read strategy at
\* most once, and when that read fails the pull returns that error, never a
\* record and never empty.
C10_IoFailureSurfaces ==
    PullReturned =>
      /\ Len(result[1].reads) <= 1
      /\ (result[1].reads # <<>> /\ result[1].reads[1].tag = "Err") =>
            result[1].ret = Err(ErrorIo(result[1].reads[1].err))

\* The bounded read of a TimeoutIter pull has failed.
C10_Witness ==
    /\ PullReturned
    /\ result[1].it.variant = "TimeoutIter"
    /\ result[1].reads = << Err("io") >>

\* C11 (reads only when needed): a pull of any variant calls its read
\* strategy only when it found the pending queue empty and the flag clear; a
\* pull that found a record queued, or the flag set, has called no read and
\* has left the transport as it was; and whenever a pull is inside its read
\* the queue is empty and the flag clear.
C11_ReadOnlyWhenNeeded ==
    /\ PullReturned =>
         /\ result[1].reads # <<>> =>
               (result[1].pre.notifications = <<>> /\ ~result[1].pre.desync)
         /\ (result[1].pre.notifications # <<>> \/ result[1].pre.desync) =>
               (result[1].reads = <<>> /\ stream = result[1].pre.stream)
    /\ pc = "reading" =>
         /\ cur[1].pre.notifications = <<>> /\ ~cur[1].pre.desync
         /\ notifications = <<>> /\ ~desync

\* A TimeoutIter pull found a record queued while the transport held a
\* message, and returned the record without touching the transport.
C11_Witness ==
    /\ FromQueue
    /\ result[1].it.variant = "TimeoutIter"
    /\ result[1].pre.stream # <<>>
    /\ stream = result[1].pre.stream

\* An operation that needs the connection state can start.
CanUseConnection ==
    ENABLED (Query \/ Pull \/ Notifications_len \/ Notifications_is_empty
                \/ \E it \in iters : size_hint(it))

\* C12 (exclusive access per pull): the connection state is held exactly
\* while a pull is inside its read; while it is held no query, pull or
\* introspection can start; a pull that has returned, on any outcome path,
\* has released it; and between pulls nothing is held, so every constructed
\* iterator can pull next.
C12_ExclusivePerPull ==
    /\ borrowed <=> (pc = "reading")
    /\ borrowed => ~CanUseConnection
    /\ PullReturned => ~borrowed
    /\ pc = "idle" =>
         \A it \in iters :
            ENABLED (Iter_next(it) \/ BlockingIter_next(it) \/ TimeoutIter_next(it))

\* With two iterators constructed and a record already pulled, a
\* BlockingIter pull that held the connection through its read has returned.
C12_Witness ==
    /\ PullReturned
    /\ result[1].it.variant = "BlockingIter"
    /\ result[1].reads # <<>>
    /\ Cardinality(iters) >= 2
    /\ Len(delivered) >= 1
    /\ ~borrowed

\* The pull that has just returned called its read strategy, and the read failed.
FailedRead ==
    /\ PullReturned
    /\ result[1].reads # <<>>
    /\ result[1].reads[1].tag = "Err"

\* C13 (the flag is the connection's): no step clears the flag, and the
\* only steps that set it are a pull whose read of the transport failed and
\* a query; a pull that performs no read or whose read succeeds, len,
\* is_empty, size_hint and the constructors leave it as it is.
C13_FlagOnlySetByReads ==
    [][ /\ desync => desync'
        /\ desync' # desync => (FailedRead' \/ Query) ]_vars

\* On a desynchronized connection, with nothing more to arrive, a
\* BlockingIter was asked for its size estimate: the flag is still set.
C13_Witness ==
    /\ desync
    /\ result # None
    /\ result[1].op = "size_hint"
    /\ result[1].it.variant = "BlockingIter"
    /\ arrivals = MaxArrivals

\* The call that has just returned was len, is_empty or size_hint.
Introspected ==
    /\ result # None
    /\ result[1].op \in {"len", "is_empty", "size_hint"}

\* C14 (introspection is read-only and exact): len() returns the number of
\* records in the pending queue at the call, is_empty() is true exactly when
\* that number is 0, and neither they, nor size_hint, nor the constructors
\* iter, blocking_iter and timeout_iter change the queue, the flag, the
\* transport or who holds the connection.
C14_IntrospectionReadOnly ==
    [][ /\ (result' # None /\ result'[1].op = "len") =>
              result'[1].count = Len(notifications')
        /\ (result' # None /\ result'[1].op = "is_empty") =>
              (result'[1].empty <=> (Len(notifications') = 0))
        /\ (Introspected' \/ iters' # iters) =>
              UNCHANGED << notifications, desync, stream, borrowed, pc, cur,
                           appended, delivered >> ]_vars

\* len() has returned 2 although no pull has ever returned anything: the
\* queue grew between calls of len() without a pull in between.
C14_Witness ==
    /\ result # None
    /\ result[1].op = "len"
    /\ result[1].count = 2
    /\ delivered = <<>>
    /\ ~emptied

\* The message the read strategy handed to the pull that has just ended:
\* None when it called no read, or the read failed or reported no message.
HandedMessage ==
    IF result[1].reads = <<>> \/ result[1].reads[1].tag # "Ok" THEN None
    ELSE IF result[1].it.variant = "BlockingIter" THEN Some(result[1].reads[1].val)
    ELSE result[1].reads[1].val

\* C15 (unexpected message kind is fatal): when the read strategy hands a
\* pull of any variant a message that is not a notification, the pull
\* panics: it returns no record, no empty and no error, the message is not
\* skipped over in favour of a later one, and the thread makes no further
\* call; and a pull panics in no other case.
C15_UnexpectedKindIsFatal ==
    /\ PullReturned =>
         ((HandedMessage # None /\ HandedMessage[1].type # "NotificationResponse")
            <=> result[1].ret = Unreachable)
    /\ (PullReturned /\ result[1].ret = Unreachable) =>
         /\ pc = "panicked"
         /\ Len(result[1].reads) = 1
         /\ ~CanUseConnection

\* A TimeoutIter pull was handed a ReadyForQuery message and panicked.
C15_Witness ==
    /\ PullReturned
    /\ result[1].it.variant = "TimeoutIter"
    /\ HandedMessage = Some(ReadyForQuery)
    /\ pc = "panicked"

\* A pull of the given variant is inside its read.
Reading(variant) == pc = "reading" /\ cur[1].it.variant = variant

\* C16 (termination): an Iter pull never waits, a TimeoutIter pull that
\* waits always ends (with a record, empty or an error) whether or not
\* anything arrives, and a BlockingIter pull that waits ends once the
\* transport has a message or a failure for it; so only a BlockingIter pull
\* on an empty queue with the flag clear can wait forever, and only while
\* nothing arrives.
C16_PullsTerminate ==
    /\ [](pc = "reading" =>
            /\ cur[1].it.variant \in {"BlockingIter", "TimeoutIter"}
            /\ cur[1].pre.notifications = <<>> /\ ~cur[1].pre.desync)
    /\ Reading("TimeoutIter") ~> PullReturned
    /\ (Reading("BlockingIter") /\ Ready(stream)) ~> PullReturned

\* A BlockingIter pull waits on an empty transport and nothing will ever
\* arrive: it waits forever.
C16_Witness ==
    /\ Reading("BlockingIter")
    /\ ~Ready(stream)
    /\ arrivals = MaxArrivals
    /\ ~ENABLED Next

\* What a pull of the given variant returns, from the connection state pre
\* it started in and the values reads its read strategy returned: the
\* iterator's past pulls are not among the arguments.
Outcome(variant, pre, reads) ==
    IF pre.notifications # <<>> THEN Ok(Some(Head(pre.notifications)))
    ELSE IF pre.desync THEN DesyncError
    ELSE IF Len(reads) # 1 THEN [tag |-> "undetermined"]
    ELSE IF variant = "Iter" THEN Iter_match(reads[1])
    ELSE IF variant = "BlockingIter" THEN BlockingIter_match(reads[1])
    ELSE TimeoutIter_match(reads[1])

\* C17 (stateless iterators): a pull never changes the iterator it is made
\* on (the set of iterator values is changed by constructors only, and a
\* pull returns on the iterator it was started on); every TimeoutIter pull
\* that reads starts its read with the whole configured duration, whatever
\* earlier pulls did; and what a pull returns is a function of the variant,
\* the connection state at its start and what the transport gave its read,
\* so pulls of one variant from equal connection states return the same.
C17_IteratorsStateless ==
    /\ [][ /\ (PullReturned' \/ pc' = "reading" \/ pc = "reading") =>
                 iters' = iters
           /\ (pc = "idle" /\ pc' = "reading") =>
                 /\ cur'[1].it \in iters'
                 /\ cur'[1].pre = Pre
                 /\ cur'[1].it.variant = "TimeoutIter" =>
                       cur'[1].remaining = cur'[1].it.timeout
           /\ (pc = "reading" /\ PullReturned') =>
                 /\ result'[1].it = cur[1].it
                 /\ result'[1].pre = cur[1].pre ]_vars
    /\ [](PullReturned =>
            /\ result[1].it \in iters
            /\ result[1].ret = Outcome(result[1].it.variant, result[1].pre,
                                       result[1].reads))

\* A TimeoutIter with a positive duration, one of whose pulls has already
\* come back empty, starts a read again with its whole duration.
C17_Witness ==
    /\ Reading("TimeoutIter")
    /\ emptied
    /\ iters = {TimeoutIter(MaxTimeout)}
    /\ cur[1].remaining = MaxTimeout

\* C18 (variants agree when no read is needed): a pull started with a
\* non-empty queue or with the flag set returns, whatever the variant and
\* the duration, the front record if there is one and the desynchronization
\* error otherwise, without reading or waiting, and leaves the queue less
\* its front record (or as it was), the flag and the transport as they
\* were, and the connection released.
C18_VariantsAgreeWithoutRead ==
    (PullReturned /\ (result[1].pre.notifications # <<>> \/ result[1].pre.desync)) =>
        /\ result[1].ret = IF result[1].pre.notifications # <<>>
                           THEN Ok(Some(Head(result[1].pre.notifications)))
                           ELSE DesyncError
        /\ notifications = IF result[1].pre.notifications # <<>>
                           THEN Tail(result[1].pre.notifications)
                           ELSE <<>>
        /\ desync = result[1].pre.desync
        /\ stream = result[1].pre.stream
        /\ result[1].reads = <<>>
        /\ pc = "idle" /\ ~borrowed

\* A BlockingIter pull started with records queued and the flag set
\* returns the front record, as the other variants do.
C18_Witness ==
    /\ PullReturned
    /\ result[1].it.variant = "BlockingIter"
    /\ result[1].pre.desync
    /\ result[1].pre.notifications # <<>>
    /\ result[1].ret = Ok(Some(Head(result[1].pre.notifications)))

=============================================================================
